---- MODULE Spec2Model ----
(***************************************************************************)
(* The streaming channel client of the trade management system:            *)
(* WebSocketClient::Impl (src/src/WebSocketClient.cpp) and its owner       *)
(* WebSocketClient.  Threads call connect(), disconnect(), send() and      *)
(* receive() on one client; every call runs under the client's mutex_.     *)
(* A call is split at its blocking points: the wait for mutex_, and each   *)
(* synchronous network operation it performs while holding mutex_.         *)
(***************************************************************************)
EXTENDS Integers, Sequences, FiniteSets, TLC

\* ------------------------------------------------------------------ bounds
NumThreads == 2
MaxWire == 1
MaxInbox == 2
NumClients == 2
NumConns == 2
MaxSessions == 2

Threads == 1..NumThreads
Clients == 1..NumClients
Msgs == {"ping", "pong"}
Conns == 1..NumConns
Symbols == {"BTC-PERPETUAL", "ETH-PERPETUAL"}

\* ------------------------------------------------------------ the program
VARIABLES
    state_,       \* Impl::state_ : State
    last_error_,  \* Impl::last_error_ : std::optional<std::string>
    mutex_,       \* Impl::mutex_ : its owner, or NoOwner
    ws_stream_,   \* Impl::ws_stream_ : the layer the session has reached
    timer,        \* connect()'s local timeout_timer
    pimpl_,       \* pimpl_[w]: WebSocketClient::pimpl_ of the client object w
    pc,           \* pc[t]: where thread t is in its current call
    cur,          \* the call that holds mutex_
    last,         \* the call that returned most recently
    outbox,       \* frames written, not yet read by the peer
    inbox,        \* frames sent by the peer, not yet read by the client
    peerSilent,   \* the peer has stopped answering
    reconnecting, \* reconnecting[t]: the part of reconnect() thread t is in
    keepRunning,  \* main(): std::atomic<bool> keepRunning
    mainPc,       \* main(): where the menu loop is
    rtPc,         \* main(), case 8: where receiveThread is
    session,      \* main(): the streaming commands started so far
    stopped,      \* main(), case 8: Enter was pressed in this streaming command
    subscriptions,\* WebSocketServer::subscriptions
    conn,         \* WebSocketServer: the state of each connection of server
    asked,        \* asked[c]: the symbols connection c sent a subscribe for
    sent          \* WebSocketServer::broadcast: what the last call sent

clientVars == <<state_, last_error_, mutex_, ws_stream_, timer, pimpl_, pc, cur, last,
                outbox, inbox, peerSilent>>
menuVars == <<keepRunning, mainPc, rtPc, session, stopped>>
serverVars == <<subscriptions, conn, asked, sent>>
others == <<reconnecting, menuVars, serverVars>>
vars == <<clientVars, others>>

None == "nullopt"

\* The client objects that hold an Impl; Released: the Impl has been destroyed.
Owners == {w \in Clients : pimpl_[w] \in {"impl", "destroying"}}
Owned == \E w \in Clients : pimpl_[w] = "impl"
Released == Owners = {}
NoOwner == 0

\* e.what() of the exceptions the operations throw
ResolveErrors == {"resolve: Host not found"}
TcpErrors == {"connect: Connection refused", "connect: Connection timed out"}
TlsErrors == {"handshake: certificate verify failed"}
WsErrors == {"The WebSocket handshake was declined by the remote peer"}
CancelError == "Operation canceled"
WriteErrors == {"write: Broken pipe"}
ReadErrors == {"read: End of file"}
CloseErrors == {"close: stream truncated"}
CallbackErrors == {"callback failed"}
NotConnectedError == "Not connected"
ReadTimeoutError == "read: timed out"

\* The record of one call made under mutex_: what it found, what it did.
NoCall ==
    [op |-> "none", pre_state |-> "Disconnected", pre_err |-> None,
     io |-> <<>>, arg |-> "-", cb |-> <<>>, armed |-> FALSE, elapsed |-> FALSE,
     caught |-> "-"]

NoReturn ==
    [op |-> "none", pre_state |-> "Disconnected", pre_err |-> None,
     io |-> <<>>, arg |-> "-", cb |-> <<>>, armed |-> FALSE, elapsed |-> FALSE,
     caught |-> "-", ret |-> "-", post_state |-> "Disconnected", post_err |-> None]

NewCall(op, arg) ==
    [op |-> op, pre_state |-> state_, pre_err |-> last_error_,
     io |-> <<>>, arg |-> arg, cb |-> <<>>, armed |-> FALSE, elapsed |-> FALSE,
     caught |-> "-"]

\* The call c has the exception what in one of its catch blocks.
Caught(c, what) == [c EXCEPT !.caught = what]

\* The call c returns r to its caller, leaving state s and error e behind.
Returned(c, r, s, e) ==
    [op |-> c.op, pre_state |-> c.pre_state, pre_err |-> c.pre_err,
     io |-> c.io, arg |-> c.arg, cb |-> c.cb, armed |-> c.armed,
     elapsed |-> c.elapsed, caught |-> c.caught, ret |-> r, post_state |-> s, post_err |-> e]

\* broadcast() has not been called.
NoBroadcast ==
    [symbol |-> "-", msg |-> "-", to |-> [c \in Conns |-> 0], due |-> {}]

Init ==
    /\ state_ = "Disconnected"
    /\ last_error_ = None
    /\ mutex_ = NoOwner
    /\ ws_stream_ = {}
    /\ timer = "unarmed"
    /\ pimpl_ = [w \in Clients |-> IF w = 1 THEN "impl" ELSE "unborn"]
    /\ pc = [t \in Threads |-> "idle"]
    /\ cur = NoCall
    /\ last = NoReturn
    /\ outbox = <<>>
    /\ inbox = <<>>
    /\ peerSilent = FALSE
    /\ reconnecting = [t \in Threads |-> "-"]
    /\ keepRunning = TRUE
    /\ mainPc = "menu"
    /\ rtPc = "none"
    /\ session = 0
    /\ stopped = FALSE
    /\ subscriptions = [s \in {} |-> {}]
    /\ conn = [c \in Conns |-> "new"]
    /\ asked = [c \in Conns |-> {}]
    /\ sent = NoBroadcast

\* Where a thread waits for mutex_, one place for each locked operation.
LockPcs == {"c_lock", "d_lock", "s_lock", "r_lock"}

\* ------------------------------------------------- the code's decisions
\* A connect(), disconnect(), send() or receive() that does not wait for mutex_.
LockFree_Unguarded(m) == TRUE

\* std::lock_guard<std::mutex> lock(mutex_): the caller proceeds once no thread
\* owns mutex_.
LockFree(m) == m = NoOwner

\* A receive() that unlocks mutex_ before it calls the callback.
DuringCallback_Unlocked(m) == NoOwner

\* The owner of mutex_ while the callback runs: receive()'s lock_guard lives to
\* the end of the function, the callback is called inside its scope.
DuringCallback(m) == m

\* A connect() without the early return.
AlreadyConnected_Never(s) == FALSE

\* connect(): if (state_ == State::Connected) return;
AlreadyConnected(s) == s = "Connected"

\* A connect() that does not pass through Connecting.
ConnectStart_NoConnecting(s, e) == [state |-> s, err |-> None]

\* A connect() that does not reset last_error_.
ConnectStart_KeepsError(s, e) == [state |-> "Connecting", err |-> e]

\* connect(): state_ = State::Connecting; last_error_.reset();
ConnectStart(s, e) == [state |-> "Connecting", err |-> None]

\* A connect() that leaves out the TLS handshake.
ConnectSequence_NoTls == <<"resolve", "tcp", "ws">>

\* connect(): the blocking calls of the try block, in program order.
ConnectSequence == <<"resolve", "tcp", "tls", "ws">>

\* connect(): state_ = State::Connected, after the last call of the try block.
ConnectSuccess(s, e) == [state |-> "Connected", err |-> e]

\* A catch block of connect() that does not put the state back.
ConnectCatch_KeepsState(s, e, what) == [state |-> s, err |-> what, ret |-> what]

\* A catch block of connect() that does not store the message.
ConnectCatch_NoRecord(s, e, what) == [state |-> "Disconnected", err |-> e, ret |-> what]

\* connect(): catch: state_ = State::Disconnected; last_error_ = e.what(); throw;
ConnectCatch(s, e, what) == [state |-> "Disconnected", err |-> what, ret |-> what]

\* A disconnect() that closes the stream whatever the state.
ClosesStream_Always(s) == TRUE

\* disconnect(): if (state_ == State::Connected) { ws_stream_.close(...) }
ClosesStream(s) == s = "Connected"

\* A disconnect() whose catch block rethrows.
DisconnectEnd_Rethrows(s, e, what) ==
    [state |-> "Disconnected", err |-> e, ret |-> IF what = None THEN "ok" ELSE what]

\* disconnect(): catch: the failure is printed, nothing is stored or rethrown;
\* then state_ = State::Disconnected, whatever close() did.
DisconnectEnd(s, e, what) == [state |-> "Disconnected", err |-> e, ret |-> "ok"]

\* A send() and receive() without the state check.
NotConnected_Never(s) == FALSE

\* send(), receive(): if (state_ != State::Connected) throw "Not connected";
NotConnected(s) == s # "Connected"

\* send(), receive(): the throw of "Not connected" is outside the try block.
NotConnectedThrow(s, e) == [state |-> s, err |-> e, ret |-> NotConnectedError]

\* A catch block of send() that also drops the connection state.
SendCatch_Disconnects(s, e, what) == [state |-> "Disconnected", err |-> what, ret |-> what]

\* send(): catch: last_error_ = e.what(); throw;
SendCatch(s, e, what) == [state |-> s, err |-> what, ret |-> what]

\* A catch block of receive() that gives the connection up.
ReceiveCatch_Disconnects(s, e, what) ==
    [state |-> "Disconnected", err |-> what, ret |-> what]

\* A catch block of receive() that keeps the first message stored.
ReceiveCatch_KeepsFirst(s, e, what) ==
    [state |-> s, err |-> IF e = None THEN what ELSE e, ret |-> what]

\* receive(): catch: last_error_ = e.what(); throw;  It encloses the read and
\* the callback.
ReceiveCatch(s, e, what) == [state |-> s, err |-> what, ret |-> what]

\* A read() that hands over the newest frame received instead of the oldest.
ReadFrame_Newest(q) == [payload |-> q[Len(q)], rest |-> SubSeq(q, 1, Len(q) - 1)]

\* receive(): ws_stream_.read(buffer) takes one complete frame, the oldest one not
\* yet read, and callback(buffers_to_string(buffer.data())) is given its payload.
ReadFrame(q) == [payload |-> Head(q), rest |-> Tail(q)]

\* A move constructor that leaves the source's pimpl_ as it was.
MovedPimpl_Copies(p) == [to |-> p, from |-> p]

\* WebSocketClient(WebSocketClient&&) = default: std::unique_ptr<Impl>'s move
\* constructor hands the pointer over and leaves the source null.
MovedPimpl(p) == [to |-> p, from |-> "null"]

\* A destructor that never disconnects.
DestructorDisconnects_Never(p, s) == FALSE

\* ~WebSocketClient(): if (pimpl_ && pimpl_->get_state() == State::Connected)
DestructorDisconnects(p, s) == p # "null" /\ s = "Connected"

\* The wait handler of timeout_timer is queued on ioc_.  No thread ever runs
\* ioc_ (there is no run(), poll() or async operation driving it), so the
\* handler, and the cancel() in it, is never invoked.
HandlerRuns == FALSE

\* timeout_timer passing its deadline.
TimerAfterDeadline == IF HandlerRuns THEN "fired" ELSE "elapsed"

\* A receive() that gives up its read after Config::read_timeout.
ReadDeadline_Applied == TRUE

\* Config::read_timeout is stored in config_ and read nowhere: receive() calls
\* ws_stream_.read(buffer) with no deadline on the stream or on the socket.
ReadDeadline == FALSE

\* A timeout_timer that is a member of Impl and outlives connect().
TimerAtScopeExit_Survives(tm) == tm

\* connect(): timeout_timer is a local of the try block; leaving the block,
\* normally or by an exception, destroys it and with it the pending wait.
TimerAtScopeExit(tm) == "unarmed"

\* ------------------------------------------------ the transport session
\* What the blocking call op does to the session when it succeeds.
StreamAfter(op, layers) ==
    CASE op = "tcp" -> {"tcp"}
      [] op = "tls" -> layers \cup {"tls"}
      [] op = "ws" -> layers \cup {"ws"}
      [] op = "close" -> {}
      [] OTHER -> layers

\* What it does when it throws: asio::connect leaves the socket closed.
StreamAfterFailure(op, layers) == IF op = "tcp" THEN {} ELSE layers

\* Whether the blocking call op can return now.
CanSucceed(op) ==
    CASE op = "resolve" -> TRUE
      [] op \in {"tcp", "tls", "ws"} -> ~peerSilent /\ timer # "fired"
      [] op = "close" -> ~peerSilent
      [] op = "write" -> Len(outbox) < MaxWire
      [] op = "read" -> inbox # <<>>
      [] OTHER -> FALSE

\* The exceptions the blocking call op can throw now.
Failures(op) ==
    CASE op = "resolve" -> ResolveErrors
      [] op = "tcp" -> IF timer = "fired" THEN {CancelError}
                       ELSE IF peerSilent THEN {"connect: Connection timed out"}
                       ELSE {"connect: Connection refused"}
      [] op = "tls" -> IF timer = "fired" THEN {CancelError}
                       ELSE IF peerSilent THEN {} ELSE TlsErrors
      [] op = "ws" -> IF timer = "fired" THEN {CancelError}
                      ELSE IF peerSilent THEN {} ELSE WsErrors
      [] op = "close" -> IF peerSilent THEN {} ELSE CloseErrors
      [] op = "write" -> WriteErrors
      [] op = "read" -> (IF peerSilent THEN {} ELSE ReadErrors)
                           \cup (IF ReadDeadline THEN {ReadTimeoutError} ELSE {})
      [] OTHER -> {}

Pending == cur.io[Len(cur.io)]

\* ------------------------------------------------------------ operations
\* The call c of thread t returns r; the lock_guard releases mutex_.
Finish(t, c, r, s, e) ==
    /\ state_' = s
    /\ last_error_' = e
    /\ mutex_' = NoOwner
    /\ pc' = [pc EXCEPT ![t] = "idle"]
    /\ cur' = NoCall
    /\ last' = Returned(c, r, s, e)

\* The call enters its first blocking call op, holding mutex_.
Block(t, c, op, label) ==
    /\ mutex_' = t
    /\ pc' = [pc EXCEPT ![t] = label]
    /\ cur' = [c EXCEPT !.io = Append(c.io, op)]
    /\ UNCHANGED last

\* A thread calls an operation of the facade, through the client object that
\* holds the Impl, and waits for mutex_.
Call(t, op) ==
    /\ Owned
    /\ pc[t] = "idle"
    /\ pc' = [pc EXCEPT ![t] = op]
    /\ UNCHANGED <<state_, last_error_, mutex_, ws_stream_, timer, pimpl_, cur,
                   last, outbox, inbox, peerSilent>>
    /\ UNCHANGED others

\* connect(), from the lock to the first blocking call.
ConnectEnter(t) ==
    /\ pc[t] = "c_lock"
    /\ LockFree(mutex_)
    /\ IF AlreadyConnected(state_)
       THEN Finish(t, NewCall("connect", "-"), "ok", state_, last_error_)
       ELSE LET b == ConnectStart(state_, last_error_) IN
            /\ state_' = b.state
            /\ last_error_' = b.err
            /\ Block(t, NewCall("connect", "-"), ConnectSequence[1], "c_io")
    /\ UNCHANGED <<ws_stream_, timer, pimpl_, outbox, inbox, peerSilent>>
    /\ UNCHANGED others

\* A blocking call of connect() returns: the next one starts, or connect() ends.
\* timeout_timer is armed between the resolution and the transport connect, and
\* destroyed when the try block is left.
ConnectStepOk(t) ==
    /\ pc[t] = "c_io"
    /\ CanSucceed(Pending)
    /\ ws_stream_' = StreamAfter(Pending, ws_stream_)
    /\ IF Pending = "tcp" THEN outbox' = <<>> /\ inbox' = <<>>
       ELSE UNCHANGED <<outbox, inbox>>
    /\ IF Len(cur.io) < Len(ConnectSequence)
       THEN /\ cur' = [cur EXCEPT !.io = Append(cur.io, ConnectSequence[Len(cur.io) + 1]),
                                  !.armed = cur.armed \/ Pending = "resolve"]
            /\ timer' = IF Pending = "resolve" THEN "armed" ELSE timer
            /\ UNCHANGED <<state_, last_error_, mutex_, pc, last>>
       ELSE LET b == ConnectSuccess(state_, last_error_) IN
            /\ timer' = TimerAtScopeExit(timer)
            /\ Finish(t, cur, "ok", b.state, b.err)
    /\ UNCHANGED <<pimpl_, peerSilent>>
    /\ UNCHANGED others

\* A blocking call of connect() throws.
ConnectStepFail(t) ==
    /\ pc[t] = "c_io"
    /\ \E what \in Failures(Pending) :
         LET b == ConnectCatch(state_, last_error_, what) IN
         Finish(t, Caught(cur, what), b.ret, b.state, b.err)
    /\ ws_stream_' = StreamAfterFailure(Pending, ws_stream_)
    /\ timer' = TimerAtScopeExit(timer)
    /\ UNCHANGED <<pimpl_, outbox, inbox, peerSilent>>
    /\ UNCHANGED others

\* The deadline of timeout_timer passes while connect() is in its try block.
TimerElapse ==
    /\ timer = "armed"
    /\ timer' = TimerAfterDeadline
    /\ cur' = [cur EXCEPT !.elapsed = TRUE]
    /\ UNCHANGED <<state_, last_error_, mutex_, ws_stream_, pimpl_, pc, last,
                   outbox, inbox, peerSilent>>
    /\ UNCHANGED others

\* disconnect(), from the lock to close(), or to its end when there is no close().
DisconnectEnter(t) ==
    /\ pc[t] = "d_lock"
    /\ LockFree(mutex_)
    /\ IF ClosesStream(state_)
       THEN /\ Block(t, NewCall("disconnect", "-"), "close", "d_io")
            /\ UNCHANGED <<state_, last_error_>>
       ELSE LET b == DisconnectEnd(state_, last_error_, None) IN
            Finish(t, NewCall("disconnect", "-"), b.ret, b.state, b.err)
    /\ UNCHANGED <<ws_stream_, timer, pimpl_, outbox, inbox, peerSilent>>
    /\ UNCHANGED others

\* close() returns.
DisconnectCloseOk(t) ==
    /\ pc[t] = "d_io"
    /\ CanSucceed(Pending)
    /\ LET b == DisconnectEnd(state_, last_error_, None) IN
       Finish(t, cur, b.ret, b.state, b.err)
    /\ ws_stream_' = StreamAfter(Pending, ws_stream_)
    /\ outbox' = <<>>
    /\ inbox' = <<>>
    /\ UNCHANGED <<timer, pimpl_, peerSilent>>
    /\ UNCHANGED others

\* close() throws.
DisconnectCloseFail(t) ==
    /\ pc[t] = "d_io"
    /\ \E what \in Failures(Pending) :
         LET b == DisconnectEnd(state_, last_error_, what) IN
         Finish(t, Caught(cur, what), b.ret, b.state, b.err)
    /\ ws_stream_' = StreamAfterFailure(Pending, ws_stream_)
    /\ UNCHANGED <<timer, pimpl_, outbox, inbox, peerSilent>>
    /\ UNCHANGED others

\* send(message), from the lock to write().
SendEnter(t) ==
    /\ pc[t] = "s_lock"
    /\ LockFree(mutex_)
    /\ \E m \in Msgs :
         IF NotConnected(state_)
         THEN LET b == NotConnectedThrow(state_, last_error_) IN
              Finish(t, NewCall("send", m), b.ret, b.state, b.err)
         ELSE /\ Block(t, NewCall("send", m), "write", "s_io")
              /\ UNCHANGED <<state_, last_error_>>
    /\ UNCHANGED <<ws_stream_, timer, pimpl_, outbox, inbox, peerSilent>>
    /\ UNCHANGED others

\* write() returns: the whole message went out as one frame.
SendWriteOk(t) ==
    /\ pc[t] = "s_io"
    /\ CanSucceed(Pending)
    /\ outbox' = Append(outbox, cur.arg)
    /\ Finish(t, cur, "ok", state_, last_error_)
    /\ UNCHANGED <<ws_stream_, timer, pimpl_, inbox, peerSilent>>
    /\ UNCHANGED others

\* write() throws.
SendWriteFail(t) ==
    /\ pc[t] = "s_io"
    /\ \E what \in Failures(Pending) :
         LET b == SendCatch(state_, last_error_, what) IN
         Finish(t, Caught(cur, what), b.ret, b.state, b.err)
    /\ UNCHANGED <<ws_stream_, timer, pimpl_, outbox, inbox, peerSilent>>
    /\ UNCHANGED others

\* receive(callback), from the lock to read().
ReceiveEnter(t) ==
    /\ pc[t] = "r_lock"
    /\ LockFree(mutex_)
    /\ IF NotConnected(state_)
       THEN LET b == NotConnectedThrow(state_, last_error_) IN
            Finish(t, NewCall("receive", "-"), b.ret, b.state, b.err)
       ELSE /\ Block(t, NewCall("receive", "-"), "read", "r_io")
            /\ UNCHANGED <<state_, last_error_>>
    /\ UNCHANGED <<ws_stream_, timer, pimpl_, outbox, inbox, peerSilent>>
    /\ UNCHANGED others

\* read() returns one complete frame; the callback is entered with its payload.
ReceiveReadOk(t) ==
    /\ pc[t] = "r_io"
    /\ CanSucceed(Pending)
    /\ inbox' = ReadFrame(inbox).rest
    /\ cur' = [cur EXCEPT !.cb = Append(cur.cb, ReadFrame(inbox).payload)]
    /\ pc' = [pc EXCEPT ![t] = "r_cb"]
    /\ mutex_' = DuringCallback(mutex_)
    /\ UNCHANGED <<state_, last_error_, ws_stream_, timer, pimpl_, last,
                   outbox, peerSilent>>
    /\ UNCHANGED others

\* read() throws.
ReceiveReadFail(t) ==
    /\ pc[t] = "r_io"
    /\ \E what \in Failures(Pending) :
         LET b == ReceiveCatch(state_, last_error_, what) IN
         Finish(t, Caught(cur, what), b.ret, b.state, b.err)
    /\ UNCHANGED <<ws_stream_, timer, pimpl_, outbox, inbox, peerSilent>>
    /\ UNCHANGED others

\* The callback returns, and receive() with it.
ReceiveCallbackOk(t) ==
    /\ pc[t] = "r_cb"
    /\ Finish(t, cur, "ok", state_, last_error_)
    /\ UNCHANGED <<ws_stream_, timer, pimpl_, outbox, inbox, peerSilent>>
    /\ UNCHANGED others

\* The callback throws inside receive()'s try block.
ReceiveCallbackFail(t) ==
    /\ pc[t] = "r_cb"
    /\ \E what \in CallbackErrors :
         LET b == ReceiveCatch(state_, last_error_, what) IN
         Finish(t, Caught(cur, what), b.ret, b.state, b.err)
    /\ UNCHANGED <<ws_stream_, timer, pimpl_, outbox, inbox, peerSilent>>
    /\ UNCHANGED others

\* WebSocketClient(WebSocketClient&&) = default: the client object w is
\* constructed from v, when no call is running on v.
MoveConstruct(w, v) ==
    /\ pimpl_[w] = "unborn"
    /\ pimpl_[v] \in {"impl", "null"}
    /\ \A u \in Threads : pc[u] = "idle"
    /\ LET m == MovedPimpl(pimpl_[v]) IN
       pimpl_' = [pimpl_ EXCEPT ![w] = m.to, ![v] = m.from]
    /\ UNCHANGED <<state_, last_error_, mutex_, ws_stream_, timer, pc, cur, last,
                   outbox, inbox, peerSilent>>
    /\ UNCHANGED others

\* ~WebSocketClient() of the client object w, run by thread t when no call is
\* running: the disconnect() it may make, then the members' destructors.  A
\* null pimpl_ has nothing to release.
DestroyBegin(t, w) ==
    /\ pimpl_[w] \in {"impl", "null"}
    /\ \A u \in Threads : pc[u] = "idle"
    /\ pimpl_' = [pimpl_ EXCEPT ![w] = IF pimpl_[w] = "null" THEN "gone" ELSE "destroying"]
    /\ pc' = [pc EXCEPT ![t] = IF DestructorDisconnects(pimpl_[w], state_)
                                 THEN "d_lock" ELSE "idle"]
    /\ UNCHANGED <<state_, last_error_, mutex_, ws_stream_, timer, cur, last,
                   outbox, inbox, peerSilent>>
    /\ UNCHANGED others

\* ~WebSocketClient(): pimpl_'s destructor releases the Impl and its ws_stream_.
DestroyRelease(w) ==
    /\ pimpl_[w] = "destroying"
    /\ \A u \in Threads : pc[u] = "idle"
    /\ pimpl_' = [pimpl_ EXCEPT ![w] = "gone"]
    /\ ws_stream_' = {}
    /\ outbox' = <<>>
    /\ inbox' = <<>>
    /\ UNCHANGED <<state_, last_error_, mutex_, timer, pc, cur, last, peerSilent>>
    /\ UNCHANGED others

\* ------------------------------------------------------------- the peer
\* The peer sends a frame on the established connection.
PeerSend ==
    /\ "ws" \in ws_stream_
    /\ ~peerSilent
    /\ Len(inbox) < MaxInbox
    /\ \E m \in Msgs : inbox' = Append(inbox, m)
    /\ UNCHANGED <<state_, last_error_, mutex_, ws_stream_, timer, pimpl_, pc,
                   cur, last, outbox, peerSilent>>
    /\ UNCHANGED others

\* The peer reads the oldest frame the client wrote, and echoes it or not.
PeerRead ==
    /\ outbox # <<>>
    /\ ~peerSilent
    /\ outbox' = Tail(outbox)
    /\ \/ UNCHANGED inbox
       \/ Len(inbox) < MaxInbox /\ inbox' = Append(inbox, Head(outbox))
    /\ UNCHANGED <<state_, last_error_, mutex_, ws_stream_, timer, pimpl_, pc,
                   cur, last, peerSilent>>
    /\ UNCHANGED others

\* The peer stops answering, for good.
PeerGoesSilent ==
    /\ ~peerSilent
    /\ Owned
    /\ peerSilent' = TRUE
    /\ UNCHANGED <<state_, last_error_, mutex_, ws_stream_, timer, pimpl_, pc,
                   cur, last, outbox, inbox>>
    /\ UNCHANGED others

ThreadStep(t) ==
    \/ \E op \in {"c_lock", "d_lock", "s_lock", "r_lock"} : Call(t, op)
    \/ ConnectEnter(t)
    \/ ConnectStepOk(t)
    \/ ConnectStepFail(t)
    \/ DisconnectEnter(t)
    \/ DisconnectCloseOk(t)
    \/ DisconnectCloseFail(t)
    \/ SendEnter(t)
    \/ SendWriteOk(t)
    \/ SendWriteFail(t)
    \/ ReceiveEnter(t)
    \/ ReceiveReadOk(t)
    \/ ReceiveReadFail(t)
    \/ ReceiveCallbackOk(t)
    \/ ReceiveCallbackFail(t)
    \/ \E w \in Clients : DestroyBegin(t, w)

Next ==
    \/ \E t \in Threads : ThreadStep(t)
    \/ \E w \in Clients : DestroyRelease(w)
    \/ \E w, v \in Clients : MoveConstruct(w, v)
    \/ TimerElapse
    \/ PeerSend
    \/ PeerRead
    \/ PeerGoesSilent

Spec == Init /\ [][Next]_vars

\* Once a thread has called an operation, its code runs on when it can; time
\* passes.  Callers are free to stop calling, and the peer to do anything.
Progress(t) ==
    \/ ConnectEnter(t)
    \/ ConnectStepOk(t)
    \/ ConnectStepFail(t)
    \/ DisconnectEnter(t)
    \/ DisconnectCloseOk(t)
    \/ DisconnectCloseFail(t)
    \/ SendEnter(t)
    \/ SendWriteOk(t)
    \/ SendWriteFail(t)
    \/ ReceiveEnter(t)
    \/ ReceiveReadOk(t)
    \/ ReceiveReadFail(t)
    \/ ReceiveCallbackOk(t)
    \/ ReceiveCallbackFail(t)

FairSpec ==
    /\ Spec
    /\ \A t \in Threads : WF_vars(Progress(t))
    /\ WF_vars(TimerElapse)

\* The same, with a mutex_ that never passes a waiting thread over for ever: a
\* call that finds mutex_ free again and again gets it.
StrongFairSpec ==
    /\ Spec
    /\ \A t \in Threads : SF_vars(Progress(t))
    /\ WF_vars(TimerElapse)

\* ------------------------------------------------------- move assignment
\* WebSocketClient& operator=(WebSocketClient&&) = default: w = std::move(v),
\* when no call is running.  std::unique_ptr<Impl>'s move assignment takes v's
\* pointer, leaves v null and deletes the Impl w held: ~Impl() destroys
\* ws_stream_ and the other members; no disconnect() is called.
MoveAssign(w, v) ==
    /\ w # v
    /\ pimpl_[w] \in {"impl", "null"}
    /\ pimpl_[v] \in {"impl", "null"}
    /\ pimpl_[w] # pimpl_[v]
    /\ \A u \in Threads : pc[u] = "idle"
    /\ LET m == MovedPimpl(pimpl_[v]) IN
       pimpl_' = [pimpl_ EXCEPT ![w] = m.to, ![v] = m.from]
    /\ IF pimpl_[w] = "impl"
       THEN ws_stream_' = {} /\ outbox' = <<>> /\ inbox' = <<>>
       ELSE UNCHANGED <<ws_stream_, outbox, inbox>>
    /\ UNCHANGED <<state_, last_error_, mutex_, timer, pc, cur, last, peerSilent>>
    /\ UNCHANGED others

AssignNext ==
    \/ Next
    \/ \E w, v \in Clients : MoveAssign(w, v)

AssignSpec == Init /\ [][AssignNext]_vars

\* ------------------------------------------------------------ reconnect()
\* WebSocketClient::reconnect() is declared in WebSocketClient.h and defined
\* nowhere; it is taken as the composition the specification gives:
\* disconnect(), then connect(), each under mutex_ for itself.
ReconnectCall(t) ==
    /\ Owned
    /\ pc[t] = "idle"
    /\ reconnecting[t] = "-"
    /\ pc' = [pc EXCEPT ![t] = "d_lock"]
    /\ reconnecting' = [reconnecting EXCEPT ![t] = "disconnect"]
    /\ UNCHANGED <<state_, last_error_, mutex_, ws_stream_, timer, pimpl_, cur,
                   last, outbox, inbox, peerSilent, menuVars, serverVars>>

\* reconnect(): disconnect() has returned, connect() is called.
ReconnectConnect(t) ==
    /\ pc[t] = "idle"
    /\ reconnecting[t] = "disconnect"
    /\ pc' = [pc EXCEPT ![t] = "c_lock"]
    /\ reconnecting' = [reconnecting EXCEPT ![t] = "connect"]
    /\ UNCHANGED <<state_, last_error_, mutex_, ws_stream_, timer, pimpl_, cur,
                   last, outbox, inbox, peerSilent, menuVars, serverVars>>

\* reconnect(): connect() has returned or thrown, and reconnect() with it.
ReconnectReturn(t) ==
    /\ pc[t] = "idle"
    /\ reconnecting[t] = "connect"
    /\ reconnecting' = [reconnecting EXCEPT ![t] = "-"]
    /\ UNCHANGED <<clientVars, menuVars, serverVars>>

\* The calls a thread that is not inside reconnect() makes.
PlainCall(t) ==
    /\ reconnecting[t] = "-"
    /\ \E op \in LockPcs : Call(t, op)

ReconnectNext ==
    \/ \E t \in Threads : PlainCall(t)
    \/ \E t \in Threads : Progress(t)
    \/ \E t \in Threads : ReconnectCall(t)
    \/ \E t \in Threads : ReconnectConnect(t)
    \/ \E t \in Threads : ReconnectReturn(t)
    \/ TimerElapse
    \/ PeerSend
    \/ PeerRead
    \/ PeerGoesSilent

ReconnectSpec == Init /\ [][ReconnectNext]_vars

\* ------------------------------------------------------------ get_state()
\* What a thread holds once get_state() has given it the state s.
Saw(s) ==
    CASE s = "Disconnected" -> "saw_Disconnected"
      [] s = "Connecting" -> "saw_Connecting"
      [] s = "Connected" -> "saw_Connected"

\* get_state(): return state_; without mutex_.  The read races with the writes
\* connect() and disconnect() make under mutex_; state_ is one word, and the read
\* gives the value before or after such a write: the value at some instant.
GetState(t) ==
    /\ Owned
    /\ pc[t] = "idle"
    /\ pc' = [pc EXCEPT ![t] = Saw(state_)]
    /\ UNCHANGED <<state_, last_error_, mutex_, ws_stream_, timer, pimpl_, cur,
                   last, outbox, inbox, peerSilent>>
    /\ UNCHANGED others

\* The caller of get_state() goes on.
GetStateReturn(t) ==
    /\ pc[t] \in {"saw_Disconnected", "saw_Connecting", "saw_Connected"}
    /\ pc' = [pc EXCEPT ![t] = "idle"]
    /\ UNCHANGED <<state_, last_error_, mutex_, ws_stream_, timer, pimpl_, cur,
                   last, outbox, inbox, peerSilent>>
    /\ UNCHANGED others

ObserveNext ==
    \/ \E t \in Threads : PlainCall(t)
    \/ \E t \in Threads : Progress(t)
    \/ \E t \in Threads : GetState(t)
    \/ \E t \in Threads : GetStateReturn(t)
    \/ TimerElapse
    \/ PeerSend
    \/ PeerRead
    \/ PeerGoesSilent

ObserveSpec == Init /\ [][ObserveNext]_vars

\* ---------------------------------------------------------------- claims
Gated == {"c_io", "d_io", "s_io", "r_io", "r_cb"}
SendReceivePcs == {"s_lock", "s_io", "r_lock", "r_io", "r_cb"}
IsPrefix(a, b) == Len(a) <= Len(b) /\ \A i \in 1..Len(a) : a[i] = b[i]

LegalTransitions ==
    {<<"Disconnected", "Connecting">>, <<"Connecting", "Connected">>,
     <<"Connecting", "Disconnected">>, <<"Connected", "Disconnected">>}

\* C1: every change of ConnectionState is Disconnected->Connecting,
\* Connecting->Connected, Connecting->Disconnected or Connected->Disconnected,
\* and no step of a send() or receive() changes it.
C1_LegalTransitions ==
    [][/\ state_' # state_ => <<state_, state_'>> \in LegalTransitions
       /\ \A t \in Threads :
            pc[t] \in SendReceivePcs /\ pc'[t] # pc[t] => state_' = state_]_vars

\* C1's case: a Connected client was destroyed, so the state went through
\* Disconnected, Connecting, Connected and back to Disconnected.
C1_Witness ==
    /\ Released
    /\ last.op = "disconnect"
    /\ last.pre_state = "Connected"
    /\ state_ = "Disconnected"

\* C2: while the state is Connected, the transport connection, the TLS handshake
\* and the protocol handshake have all completed on the session, and a connect
\* attempt that ends Connected ran every step and none of them failed.
C2_ConnectedMeansHandshaken ==
    /\ state_ = "Connected" => ws_stream_ = {"tcp", "tls", "ws"}
    /\ last.op = "connect" /\ last.pre_state # "Connected" /\ last.post_state = "Connected"
         => last.ret = "ok" /\ last.io = <<"resolve", "tcp", "tls", "ws">>
    /\ last.op = "connect" /\ last.ret # "ok" => state_ # "Connected"

\* C2's case: a second connect attempt on a session used before has succeeded.
C2_Witness ==
    /\ state_ = "Connected"
    /\ last.op = "connect"
    /\ last.pre_state = "Disconnected"
    /\ last.pre_err # None

\* C3: at most one thread at a time is inside a connect(), disconnect(), send()
\* or receive() past the lock, and it is the owner of mutex_; so a send() and a
\* receive() are never both in flight on the transport.
C3_OneOperationAtATime ==
    /\ Cardinality({t \in Threads : pc[t] \in Gated}) <= 1
    /\ \A t \in Threads : pc[t] \in Gated => mutex_ = t
    /\ ~ \E t, u \in Threads : pc[t] = "s_io" /\ pc[u] \in {"r_io", "r_cb"}

\* C3's case: a send() is writing while another thread's receive() waits.
C3_Witness ==
    \E t, u \in Threads : pc[t] = "s_io" /\ pc[u] = "r_lock"

\* The messages a failure of the connect step op can carry.
StepErrors(op) ==
    CASE op = "resolve" -> ResolveErrors
      [] op = "tcp" -> TcpErrors \cup {CancelError}
      [] op = "tls" -> TlsErrors \cup {CancelError}
      [] op = "ws" -> WsErrors \cup {CancelError}
      [] OTHER -> {}

\* C4: a connect() from a state other than Connected attempts resolution,
\* transport connect, TLS handshake and protocol handshake in that order; when a
\* step fails no later step is attempted, the state ends Disconnected, LastError
\* is that failure's message and the caller gets the fault.
C4_ConnectFailure ==
    /\ \A t \in Threads : pc[t] = "c_io" =>
         /\ cur.io # <<>>
         /\ IsPrefix(cur.io, <<"resolve", "tcp", "tls", "ws">>)
    /\ last.op = "connect" /\ last.pre_state # "Connected" =>
         /\ last.io # <<>>
         /\ IsPrefix(last.io, <<"resolve", "tcp", "tls", "ws">>)
         /\ last.ret # "ok" =>
              /\ last.ret \in StepErrors(last.io[Len(last.io)])
              /\ last.post_state = "Disconnected"
              /\ last.post_err = last.ret

\* C4's case: the TLS handshake failed after an earlier failure had been recorded.
C4_Witness ==
    /\ last.op = "connect"
    /\ last.io = <<"resolve", "tcp", "tls">>
    /\ last.ret \in TlsErrors
    /\ last.pre_err \in ResolveErrors
    /\ state_ = "Disconnected"

\* C5: a connect() during which the timer's deadline passed before the steps
\* completed is cancelled: it ends with state Disconnected and a LastError.
C5_TimeoutCancelsConnect ==
    last.op = "connect" /\ last.elapsed =>
        /\ last.ret # "ok"
        /\ last.post_state = "Disconnected"
        /\ last.post_err # None

\* C6: a connect() that has started its steps eventually returns, whatever the
\* peer does.
C6_ConnectReturns ==
    \A t \in Threads : (pc[t] = "c_io") ~> (pc[t] = "idle")

\* C7: a send() or receive() that finds the state not Connected fails with the
\* NotConnected fault, writes and reads nothing, does not invoke the callback and
\* leaves the state as it was.
C7_NotConnectedFault ==
    last.op \in {"send", "receive"} /\ last.pre_state # "Connected" =>
        /\ last.ret = NotConnectedError
        /\ last.io = <<>>
        /\ last.cb = <<>>
        /\ last.post_state = last.pre_state

\* C7's case: a receive() was rejected on a client that is not connected.
C7_Witness ==
    /\ last.op = "receive"
    /\ last.pre_state = "Disconnected"
    /\ last.ret = NotConnectedError

\* C8: a write fault of send() or a read fault of receive() is stored in
\* LastError and returned to the caller, the state stays Connected, and after a
\* read fault the callback has not been invoked.
C8_IoFaultKeepsState ==
    /\ last.op = "send" /\ last.io = <<"write">> /\ last.ret # "ok" =>
         /\ last.ret \in WriteErrors
         /\ last.post_err = last.ret
         /\ last.post_state = "Connected"
    /\ last.op = "receive" /\ last.io = <<"read">> /\ last.cb = <<>> =>
         /\ last.ret \in ReadErrors
         /\ last.post_err = last.ret
         /\ last.post_state = "Connected"
    /\ last.op = "receive" /\ last.ret \in ReadErrors => last.cb = <<>>

\* C8's case: a write fault was followed by a read fault on the same connection.
C8_Witness ==
    /\ last.op = "receive"
    /\ last.ret \in ReadErrors
    /\ last.pre_err \in WriteErrors
    /\ state_ = "Connected"

\* C9: a connect() that finds the state Connected returns without a fault, runs
\* no step, arms no timer and leaves the state and LastError as they were.
C9_ConnectWhenConnected ==
    last.op = "connect" /\ last.pre_state = "Connected" =>
        /\ last.ret = "ok"
        /\ last.io = <<>>
        /\ ~last.armed
        /\ last.post_state = "Connected"
        /\ last.post_err = last.pre_err

\* C9's case: connect() on a Connected client whose LastError holds a write fault.
C9_Witness ==
    /\ last.op = "connect"
    /\ last.pre_state = "Connected"
    /\ last.pre_err \in WriteErrors
    /\ last.ret = "ok"

\* C10: every disconnect() returns without a fault leaving the state
\* Disconnected; one that finds the state Disconnected does no I/O and changes
\* neither the state nor LastError; and the second of two disconnect() calls in
\* succession finds the state Disconnected.
C10_DisconnectIdempotent ==
    [][last' # last /\ last'.op = "disconnect" =>
         /\ last'.ret = "ok"
         /\ last'.post_state = "Disconnected"
         /\ state_' = "Disconnected"
         /\ last'.pre_state = "Disconnected" =>
              /\ last'.io = <<>>
              /\ last'.post_err = last'.pre_err
              /\ ws_stream_' = ws_stream_
         /\ last.op = "disconnect" =>
              /\ last'.pre_state = "Disconnected"
              /\ last'.io = <<>>]_vars

\* C10's case: a disconnect() on a Disconnected client that holds a LastError.
C10_Witness ==
    /\ last.op = "disconnect"
    /\ last.pre_state = "Disconnected"
    /\ last.pre_err # None
    /\ last.io = <<>>
    /\ state_ = "Disconnected"

ConnectErrors == ResolveErrors \cup TcpErrors \cup TlsErrors \cup WsErrors

\* C11: when disconnect() returns the state is Disconnected and the caller gets
\* no fault, whether close() was not attempted, returned or threw.
C11_DisconnectAlwaysDisconnects ==
    last.op = "disconnect" =>
        /\ last.ret = "ok"
        /\ last.post_state = "Disconnected"
        /\ \/ last.io = <<>> /\ last.caught = "-"
           \/ last.io = <<"close">> /\ last.caught = "-"
           \/ last.io = <<"close">> /\ last.caught \in CloseErrors

\* C11's case: close() threw, and disconnect() returned normally.
C11_Witness ==
    /\ last.op = "disconnect"
    /\ last.caught \in CloseErrors
    /\ last.ret = "ok"
    /\ state_ = "Disconnected"

\* C12: when close() throws inside disconnect(), LastError afterwards holds the
\* message of that failure.
C12_CloseFailureRecorded ==
    last.op = "disconnect" /\ last.caught \in CloseErrors =>
        last.post_err = last.caught

\* C13: a connect() that finds the state not Connected clears LastError before
\* its first step: LastError is absent while the steps run and after they
\* succeed, and after a failure it is the message of this attempt's exception.
C13_ConnectClearsLastError ==
    /\ \A t \in Threads : pc[t] = "c_io" => last_error_ = None
    /\ last.op = "connect" /\ last.pre_state # "Connected" =>
         /\ last.ret = "ok" => last.post_err = None
         /\ last.ret # "ok" => last.caught # "-" /\ last.post_err = last.caught

\* C13's case: a connect() failed recording its error, and the next succeeded.
C13_Witness ==
    /\ last.op = "connect"
    /\ last.pre_err \in ConnectErrors
    /\ last.pre_state = "Disconnected"
    /\ last.ret = "ok"
    /\ last_error_ = None

\* C14: LastError is one slot, the last write wins: it changes only when a
\* connect attempt starts (to absent) or when a catch block of connect(), send()
\* or receive() stores the message it caught, which replaces whatever was there;
\* a send() or receive() that succeeds leaves it as it found it.
C14_MostRecentWins ==
    /\ [](last.op \in {"send", "receive"} /\ last.ret = "ok"
            => last.post_err = last.pre_err)
    /\ [](last.op \in {"connect", "send", "receive"} /\ last.caught # "-"
            => last.post_err = last.caught)
    /\ [][last_error_' # last_error_ =>
            \/ /\ last_error_' = None
               /\ \E t \in Threads : pc[t] = "c_lock" /\ pc'[t] = "c_io"
            \/ /\ \E t \in Threads : pc[t] # "idle" /\ pc'[t] = "idle"
               /\ last'.op \in {"connect", "send", "receive"}
               /\ last'.caught = last_error_']_vars

\* C14's case: a write fault replaced the read fault stored before it.
C14_Witness ==
    /\ last.op = "send"
    /\ last.caught \in WriteErrors
    /\ last.pre_err \in ReadErrors
    /\ last_error_ = last.caught

\* C15: after a send() or receive() was rejected with the NotConnected fault,
\* LastError is that fault's message.
C15_NotConnectedRecorded ==
    last.op \in {"send", "receive"} /\ last.ret = NotConnectedError =>
        last.post_err = NotConnectedError

\* C16: a successful receive(cb) performs exactly one read and one callback, the
\* callback runs inside the call with the payload of the oldest frame not yet
\* read, which is the one frame the call consumes; a successful send(m) puts
\* exactly m on the wire behind the frames written before it, so an echoed m is
\* what the next receive delivers and frames are delivered in arrival order.
C16_ReceiveOneFrame ==
    /\ [](last.op = "receive" /\ last.ret = "ok"
            => last.io = <<"read">> /\ Len(last.cb) = 1)
    /\ [][\A t \in Threads :
            /\ pc[t] = "r_io" /\ pc'[t] = "r_cb"
                 => /\ inbox # <<>>
                    /\ cur'.cb = <<Head(inbox)>>
                    /\ inbox' = Tail(inbox)
            /\ pc[t] = "r_io" /\ pc'[t] = "idle"
                 => last'.cb = <<>> /\ last'.ret # "ok" /\ inbox' = inbox
            /\ pc[t] = "r_cb" /\ pc'[t] = "idle"
                 => last'.cb = cur.cb /\ Len(cur.cb) = 1 /\ inbox' = inbox
            /\ pc[t] = "r_cb" => pc'[t] \in {"r_cb", "idle"}
            /\ pc[t] = "s_io" /\ pc'[t] = "idle" /\ last'.ret = "ok"
                 => outbox' = Append(outbox, cur.arg)]_vars

\* C16's case: two frames had arrived, "ping" before "pong"; the receive took
\* "ping" for its callback and left "pong" for the next call.
C16_Witness ==
    /\ last.op = "receive"
    /\ last.ret = "ok"
    /\ last.cb = <<"ping">>
    /\ inbox = <<"pong">>
    /\ state_ = "Connected"

\* C17: every disconnect() that a thread has called returns to it, whatever the
\* state and whatever calls the other threads make on the same client.
C17_DisconnectReturns ==
    \A t \in Threads : pc[t] \in {"d_lock", "d_io"} ~> pc[t] = "idle"

C19_DestructorDisconnects ==
    /\ [](\A w \in Clients : pimpl_[w] = "destroying"
            => \A t \in Threads : pc[t] \in {"idle", "d_lock", "d_io"})
    /\ [][\A w \in Clients :
            /\ pimpl_[w] = "impl" /\ pimpl_'[w] = "destroying"
                 => /\ state_' = state_ /\ ws_stream_' = ws_stream_ /\ cur' = cur
                    /\ IF state_ = "Connected"
                       THEN \E t \in Threads :
                              pc' = [u \in Threads |-> IF u = t THEN "d_lock" ELSE "idle"]
                       ELSE pc' = [u \in Threads |-> "idle"]
            /\ pimpl_[w] = "destroying"
                 => \A t \in Threads :
                      /\ pc[t] = "d_lock" /\ pc'[t] # "d_lock"
                           => pc'[t] = "d_io" /\ cur'.io = <<"close">>
                      /\ pc[t] = "d_io" /\ pc'[t] # "d_io"
                           => /\ pc'[t] = "idle"
                              /\ last'.op = "disconnect" /\ last'.ret = "ok"
                              /\ state_' = "Disconnected"
                      /\ pc[t] = "idle" => pc'[t] = "idle"
            /\ pimpl_[w] = "destroying" /\ pimpl_'[w] # "destroying"
                 => /\ pimpl_'[w] = "gone"
                    /\ state_ = "Disconnected"
                    /\ \A t \in Threads : pc[t] = "idle"
                    /\ ws_stream_' = {}]_vars

\* C19's case: a Connected client was destroyed, the close its destructor
\* attempted failed, and the session was released all the same.
C19_Witness ==
    /\ Released
    /\ last.op = "disconnect"
    /\ last.pre_state = "Connected"
    /\ last.io = <<"close">>
    /\ last.caught \in CloseErrors
    /\ last.ret = "ok"

\* C20: a move construction gives the new client object the source's Impl, with
\* its state, its LastError and its session as they are, and leaves the source
\* null; it performs no call and no I/O.  Destroying the moved-from object
\* changes nothing else.  At most one client object holds the Impl, and once the
\* Impl is released no call runs on it again.
C20_MoveTransfersOwnership ==
    /\ [](Cardinality(Owners) <= 1)
    /\ [](Released => ws_stream_ = {} /\ \A t \in Threads : pc[t] = "idle")
    /\ [][/\ Released => Released'
          /\ \A w \in Clients :
               /\ pimpl_[w] = "unborn" /\ pimpl_'[w] # "unborn"
                    => /\ \E v \in Clients \ {w} :
                             /\ pimpl_'[w] = pimpl_[v]
                             /\ pimpl_'[v] = "null"
                             /\ \A x \in Clients \ {w, v} : pimpl_'[x] = pimpl_[x]
                       /\ UNCHANGED <<state_, last_error_, mutex_, ws_stream_, timer,
                                      pc, cur, last, outbox, inbox>>
               /\ pimpl_[w] = "null" /\ pimpl_'[w] # "null"
                    => /\ pimpl_'[w] = "gone"
                       /\ \A x \in Clients \ {w} : pimpl_'[x] = pimpl_[x]
                       /\ UNCHANGED <<state_, last_error_, mutex_, ws_stream_, timer,
                                      pc, cur, last, outbox, inbox>>]_vars

\* C20's case: a Connected client with a recorded error was moved from and the
\* moved-from object destroyed; the new owner holds the session, still Connected
\* and with the same LastError.
C20_Witness ==
    \E w, v \in Clients :
        /\ pimpl_[v] = "gone"
        /\ pimpl_[w] = "impl"
        /\ state_ = "Connected"
        /\ ws_stream_ = {"tcp", "tls", "ws"}
        /\ last_error_ \in WriteErrors

\* C21: reconnect() is disconnect() followed by connect().  Its disconnect()
\* returns without a fault and leaves the state Disconnected; its connect() then
\* returns normally with the state Connected, or throws the message of the step
\* that failed, with the state Disconnected and that message in LastError; no
\* step of a reconnect() writes a frame.
C21_ReconnectIsDisconnectThenConnect ==
    [][\A t \in Threads :
        /\ reconnecting[t] = "disconnect" /\ pc[t] # "idle" /\ pc'[t] = "idle"
             => /\ last'.op = "disconnect"
                /\ last'.ret = "ok"
                /\ state_' = "Disconnected"
        /\ reconnecting[t] = "connect" /\ pc[t] # "idle" /\ pc'[t] = "idle"
             => /\ last'.op = "connect"
                /\ last'.ret = "ok" => state_' = "Connected"
                /\ last'.ret # "ok"
                     => /\ state_' = "Disconnected"
                        /\ last'.ret \in ConnectErrors
                        /\ last_error_' = last'.ret
        /\ reconnecting[t] # "-" /\ pc'[t] # pc[t]
             => /\ pc'[t] \in {"idle", "d_lock", "d_io", "c_lock", "c_io"}
                /\ outbox' = outbox \/ outbox' = <<>>]_vars

\* C21's case: a reconnect() on a Connected client closed the session, ran every
\* step of a new connect and has the client Connected again.
C21_Witness ==
    \E t \in Threads :
        /\ reconnecting[t] = "connect"
        /\ pc[t] = "idle"
        /\ last.op = "connect"
        /\ last.pre_state = "Disconnected"
        /\ last.io = ConnectSequence
        /\ last.ret = "ok"
        /\ state_ = "Connected"

\* C22: timeout_timer exists only while a connect() is in its try block: once
\* connect() has returned there is no timer left to pass its deadline, no send()
\* or receive() runs with the timer armed, and none of them ends with the
\* cancellation's fault.
C22_TimerGoneAfterConnect ==
    /\ timer # "unarmed" => \E t \in Threads : pc[t] = "c_io" /\ cur.armed
    /\ \A t \in Threads : pc[t] \in {"s_io", "r_io", "r_cb"} => timer = "unarmed"
    /\ last.op \in {"send", "receive"} => last.caught # CancelError /\ ~last.elapsed

\* C22's case: the deadline passed while connect() was still in a handshake that
\* then succeeded, and a send() is in flight on that session.
C22_Witness ==
    /\ last.op = "connect"
    /\ last.ret = "ok"
    /\ last.elapsed
    /\ state_ = "Connected"
    /\ \E t \in Threads : pc[t] = "s_io"

\* C23: when the client objects give up the Impl, however they do it, its state
\* is not Connected: a disconnect() has run on a Connected session before the
\* session is released.
C23_NoReleaseWithoutClose ==
    [][~Released /\ Released' => state_ # "Connected"]_vars

\* ------------------------------------------- a callback that calls the client
\* The callback receive() has entered calls connect(), disconnect(), send() or
\* receive() of the same client: thread t, still owning mutex_, arrives at that
\* operation's lock_guard.  (Locking a std::mutex its own thread owns is outside
\* what the standard defines; the pthread mutex this builds on blocks for ever.)
CallbackCalls(t, op) ==
    /\ pc[t] = "r_cb"
    /\ pc' = [pc EXCEPT ![t] = op]
    /\ UNCHANGED <<state_, last_error_, mutex_, ws_stream_, timer, pimpl_, cur,
                   last, outbox, inbox, peerSilent>>
    /\ UNCHANGED others

CallbackNext ==
    \/ \E t \in Threads : PlainCall(t)
    \/ \E t \in Threads : Progress(t)
    \/ \E t \in Threads : \E op \in LockPcs : CallbackCalls(t, op)
    \/ TimerElapse
    \/ PeerSend
    \/ PeerRead
    \/ PeerGoesSilent

CallbackSpec == Init /\ [][CallbackNext]_vars

\* --------------------------------------- the menu's streaming command (case 8)
\* The thread of main() and the receiveThread the command starts.
MainThread == 1
ReceiveThread == 2

\* A receiveThread.join() that does not wait.
JoinReturns_AtOnce(r) == TRUE

\* receiveThread.join() returns once the thread's function has returned.
JoinReturns(r) == r = "done"

\* while (keepRunning): the test the receive thread makes before each receive().
LoopGoesOn(k) == k

\* Whether the call that has just returned to the program threw.
Threw == last.ret # "ok"

\* case 8 is chosen: WebSocketClient wsClient(wsConfig), a new client with a new
\* connection to make, and wsClient.connect() is called.  keepRunning, declared
\* before the menu loop, is as the command before left it.
StartStream ==
    /\ mainPc = "menu"
    /\ session < MaxSessions
    /\ session' = session + 1
    /\ stopped' = FALSE
    /\ mainPc' = "connect"
    /\ state_' = "Disconnected"
    /\ last_error_' = None
    /\ ws_stream_' = {}
    /\ timer' = "unarmed"
    /\ outbox' = <<>>
    /\ inbox' = <<>>
    /\ pc' = [pc EXCEPT ![MainThread] = "c_lock"]
    /\ UNCHANGED <<mutex_, pimpl_, cur, last, peerSilent>>
    /\ UNCHANGED <<keepRunning, rtPc, reconnecting, serverVars>>

\* connect() has returned: wsClient.send(subscribeMessage.dump()) is called.  No
\* handler encloses connect(): an exception it throws ends the program.
AfterConnect ==
    /\ mainPc = "connect"
    /\ pc[MainThread] = "idle"
    /\ IF Threw
       THEN mainPc' = "terminated" /\ pc' = pc
       ELSE mainPc' = "send" /\ pc' = [pc EXCEPT ![MainThread] = "s_lock"]
    /\ UNCHANGED <<state_, last_error_, mutex_, ws_stream_, timer, pimpl_, cur,
                   last, outbox, inbox, peerSilent>>
    /\ UNCHANGED <<keepRunning, rtPc, session, stopped, reconnecting, serverVars>>

\* send() has returned: receiveThread is started and main() waits for Enter.  An
\* exception of send() ends the program.
AfterSend ==
    /\ mainPc = "send"
    /\ pc[MainThread] = "idle"
    /\ IF Threw
       THEN mainPc' = "terminated" /\ rtPc' = rtPc
       ELSE mainPc' = "wait" /\ rtPc' = "test"
    /\ UNCHANGED clientVars
    /\ UNCHANGED <<keepRunning, session, stopped, reconnecting, serverVars>>

\* receiveThread: while (keepRunning) wsClient.receive(...); the test, then the
\* call or the end of the thread's function.
LoopTest ==
    /\ rtPc = "test"
    /\ mainPc # "terminated"
    /\ IF LoopGoesOn(keepRunning)
       THEN rtPc' = "receive" /\ pc' = [pc EXCEPT ![ReceiveThread] = "r_lock"]
       ELSE rtPc' = "done" /\ pc' = pc
    /\ UNCHANGED <<state_, last_error_, mutex_, ws_stream_, timer, pimpl_, cur,
                   last, outbox, inbox, peerSilent>>
    /\ UNCHANGED <<keepRunning, mainPc, session, stopped, reconnecting, serverVars>>

\* receive() has returned to the loop.  An exception of receive() leaves the
\* thread's function, which ends the program.
AfterReceive ==
    /\ rtPc = "receive"
    /\ pc[ReceiveThread] = "idle"
    /\ mainPc # "terminated"
    /\ IF Threw
       THEN mainPc' = "terminated" /\ rtPc' = "terminated"
       ELSE mainPc' = mainPc /\ rtPc' = "test"
    /\ UNCHANGED clientVars
    /\ UNCHANGED <<keepRunning, session, stopped, reconnecting, serverVars>>

\* The user presses Enter: std::cin.get() returns, keepRunning = false, and
\* main() goes to receiveThread.join().
StopStream ==
    /\ mainPc = "wait"
    /\ keepRunning' = FALSE
    /\ stopped' = TRUE
    /\ mainPc' = "join"
    /\ UNCHANGED clientVars
    /\ UNCHANGED <<rtPc, session, reconnecting, serverVars>>

\* receiveThread.join() returns and wsClient.disconnect() is called.
Joined ==
    /\ mainPc = "join"
    /\ JoinReturns(rtPc)
    /\ mainPc' = "disconnect"
    /\ rtPc' = IF rtPc = "done" THEN "none" ELSE rtPc
    /\ pc' = [pc EXCEPT ![MainThread] = "d_lock"]
    /\ UNCHANGED <<state_, last_error_, mutex_, ws_stream_, timer, pimpl_, cur,
                   last, outbox, inbox, peerSilent>>
    /\ UNCHANGED <<keepRunning, session, stopped, reconnecting, serverVars>>

\* disconnect() has returned: break, wsClient goes out of scope (its destructor
\* finds the state Disconnected) and the menu is shown again.
AfterDisconnect ==
    /\ mainPc = "disconnect"
    /\ pc[MainThread] = "idle"
    /\ mainPc' = "menu"
    /\ UNCHANGED clientVars
    /\ UNCHANGED <<keepRunning, rtPc, session, stopped, reconnecting, serverVars>>

\* The threads' steps inside the client, while the program lives.
StreamProgress(t) == mainPc # "terminated" /\ Progress(t)

StreamNext ==
    \/ StartStream
    \/ AfterConnect
    \/ AfterSend
    \/ LoopTest
    \/ AfterReceive
    \/ StopStream
    \/ Joined
    \/ AfterDisconnect
    \/ \E t \in Threads : StreamProgress(t)
    \/ TimerElapse
    \/ PeerSend
    \/ PeerRead
    \/ PeerGoesSilent

StreamSpec == Init /\ [][StreamNext]_vars

\* The program's and the client's code run on when they can; the user is free
\* never to press Enter, the peer to do anything.
StreamFairSpec ==
    /\ StreamSpec
    /\ \A t \in Threads : WF_vars(StreamProgress(t))
    /\ WF_vars(AfterConnect)
    /\ WF_vars(AfterSend)
    /\ WF_vars(LoopTest)
    /\ WF_vars(AfterReceive)
    /\ WF_vars(Joined)
    /\ WF_vars(AfterDisconnect)
    /\ WF_vars(TimerElapse)

\* ------------------------------------------------------ WebSocketServer
\* An onClose() that leaves the subscriber sets as they are.
EraseFrom_Nothing(subs, c) == subs

\* onClose: for (auto& [symbol, clients] : subscriptions) clients.erase(hdl);
EraseFrom(subs, c) == [k \in DOMAIN subs |-> subs[k] \ {c}]

\* onMessage: subscriptions[symbol].insert(hdl); operator[] makes the symbol's
\* set when there is none, std::set keeps one copy of a handle.
InsertInto(subs, s, c) ==
    [k \in DOMAIN subs \cup {s} |->
        IF k = s
        THEN (IF s \in DOMAIN subs THEN subs[s] ELSE {}) \cup {c}
        ELSE subs[k]]

\* broadcast: for (const auto& hdl : subscriptions[symbol]) server.send(hdl, ...):
\* one send for each handle of the set, counted in to.
RECURSIVE SendEach(_, _)
SendEach(S, to) ==
    IF S = {} THEN to
    ELSE LET hdl == CHOOSE c \in S : TRUE IN
         SendEach(S \ {hdl}, [to EXCEPT ![hdl] = @ + 1])

\* set_open_handler: onOpen(hdl), which only prints.
OnOpen(c) ==
    /\ conn[c] = "new"
    /\ conn' = [conn EXCEPT ![c] = "open"]
    /\ UNCHANGED <<subscriptions, asked, sent>>
    /\ UNCHANGED <<clientVars, reconnecting, menuVars>>

\* onMessage(hdl, msg) for a frame of an open connection: a JSON object with a
\* "subscribe" member naming a symbol, or one without.
OnMessage(c, key, s) ==
    /\ conn[c] = "open"
    /\ IF key = "subscribe"
       THEN /\ subscriptions' = InsertInto(subscriptions, s, c)
            /\ asked' = [asked EXCEPT ![c] = @ \cup {s}]
       ELSE UNCHANGED <<subscriptions, asked>>
    /\ UNCHANGED <<conn, sent>>
    /\ UNCHANGED <<clientVars, reconnecting, menuVars>>

\* set_close_handler: onClose(hdl).
OnClose(c) ==
    /\ conn[c] = "open"
    /\ conn' = [conn EXCEPT ![c] = "closed"]
    /\ subscriptions' = EraseFrom(subscriptions, c)
    /\ asked' = [asked EXCEPT ![c] = {}]
    /\ UNCHANGED sent
    /\ UNCHANGED <<clientVars, reconnecting, menuVars>>

\* broadcast(symbol, message); sent keeps what it did, and the connections that
\* were due the message when it was called.
Broadcast(s, m) ==
    /\ sent' = [symbol |-> s, msg |-> m,
                to |-> IF s \in DOMAIN subscriptions
                       THEN SendEach(subscriptions[s], NoBroadcast.to)
                       ELSE NoBroadcast.to,
                due |-> {c \in Conns : conn[c] = "open" /\ s \in asked[c]}]
    /\ UNCHANGED <<subscriptions, conn, asked>>
    /\ UNCHANGED <<clientVars, reconnecting, menuVars>>

ServerNext ==
    \/ \E c \in Conns : OnOpen(c)
    \/ \E c \in Conns : \E key \in {"subscribe", "other"} : \E s \in Symbols :
          OnMessage(c, key, s)
    \/ \E c \in Conns : OnClose(c)
    \/ \E s \in Symbols : \E m \in Msgs : Broadcast(s, m)

ServerSpec == Init /\ [][ServerNext]_vars

\* C24: the state is Connecting only while a connect() is in its try block; no
\* call returns leaving it Connecting; send(), receive() and disconnect() never
\* find it Connecting at their check; and get_state() gives Connecting only to a
\* thread that reads while another thread's connect() is in progress.
C24_ConnectingOnlyDuringConnect ==
    /\ [](state_ = "Connecting" => \E t \in Threads : pc[t] = "c_io")
    /\ [](last.post_state # "Connecting")
    /\ [](/\ cur.op \in {"send", "receive", "disconnect"} => cur.pre_state # "Connecting"
          /\ last.op \in {"send", "receive", "disconnect"} => last.pre_state # "Connecting")
    /\ [][\A t \in Threads :
            /\ pc[t] = "idle" /\ pc'[t] # "idle" /\ pc'[t] \notin {"c_lock", "d_lock", "s_lock", "r_lock"}
                 => pc'[t] = Saw(state_)
            /\ pc[t] = "idle" /\ pc'[t] = "saw_Connecting"
                 => \E u \in Threads \ {t} : pc[u] = "c_io"]_vars

\* C24's case: a thread has read Connecting while another is in a connect().
C24_Witness ==
    \E t, u \in Threads :
        /\ pc[t] = "saw_Connecting"
        /\ pc[u] = "c_io"
        /\ state_ = "Connecting"

\* C25: the callback runs with mutex_ held by the receiving thread; while it runs
\* no thread gets past the lock of connect(), disconnect(), send() or receive();
\* and a thread whose callback called one of them on the same client stays at
\* that lock, owning mutex_, for ever.
C25_CallbackHoldsGate ==
    /\ [](\A t \in Threads : pc[t] = "r_cb" => mutex_ = t)
    /\ [][\A t, u \in Threads :
            pc[t] = "r_cb" /\ pc[u] \in LockPcs => pc'[u] = pc[u]]_vars
    /\ [][\A t \in Threads :
            pc[t] \in LockPcs /\ mutex_ = t
                => /\ pc'[t] = pc[t]
                   /\ mutex_' = t
                   /\ cur' = cur
                   /\ \A u \in Threads : pc[u] \in LockPcs => pc'[u] = pc[u]]_vars

\* C25's case: a callback has called the client and waits at the lock its own
\* thread owns, while another thread waits at a lock too.
C25_Witness ==
    \E t, u \in Threads :
        /\ t # u
        /\ pc[t] \in LockPcs
        /\ mutex_ = t
        /\ cur.op = "receive"
        /\ Len(cur.cb) = 1
        /\ pc[u] \in LockPcs

\* C26: when the callback throws, receive() stores the exception's message in
\* last_error_ and throws it on, as for a failed read; mutex_ is released, the
\* state stays Connected, and the frame the callback was given stays taken: the
\* read removed it from the frames waiting, the failure does not put it back.
C26_CallbackFault ==
    /\ [][\A t \in Threads :
            pc[t] = "r_cb" /\ pc'[t] = "idle" /\ last'.ret # "ok"
                => /\ last'.caught \in CallbackErrors
                   /\ last'.ret = last'.caught
                   /\ last_error_' = last'.caught
                   /\ last'.post_err = last'.caught
                   /\ state_ = "Connected"
                   /\ state_' = "Connected"
                   /\ last'.post_state = "Connected"
                   /\ mutex_ = t
                   /\ mutex_' = NoOwner
                   /\ last'.cb = cur.cb
                   /\ Len(cur.cb) = 1
                   /\ inbox' = inbox]_vars
    /\ [][\A t \in Threads :
            pc[t] = "r_io" /\ pc'[t] = "r_cb"
                => /\ inbox # <<>>
                   /\ cur'.cb = <<Head(inbox)>>
                   /\ inbox' = Tail(inbox)]_vars
    /\ [](\A x \in ReadErrors \cup CallbackErrors :
            last.op = "receive" /\ last.caught = x
                => last.ret = x /\ last.post_err = x /\ last.post_state = "Connected")

\* C26's case: a receive() whose callback threw has returned while a second
\* frame was waiting, and the next receive() has given that frame to its callback.
C26_Witness ==
    /\ last.op = "receive"
    /\ last.caught \in CallbackErrors
    /\ Len(last.cb) = 1
    /\ last.cb[1] = "ping"
    /\ cur.op = "receive"
    /\ cur.cb = <<"pong">>
    /\ cur.pre_err \in CallbackErrors

\* The places of main() in the streaming command, in the order of the code.
StreamOrder ==
    {<<"menu", "connect">>, <<"connect", "send">>, <<"send", "wait">>,
     <<"wait", "join">>, <<"join", "disconnect">>, <<"disconnect", "menu">>}

\* C27: the streaming command calls connect(), then send(), then receive() on
\* its thread, then disconnect(): send() only after connect() returned without an
\* exception, nothing at all after a connect() that threw, the thread only after
\* send(), and disconnect() only when the thread has ended, never while a
\* receive() is running.
C27_StreamingOrder ==
    /\ [][mainPc' # mainPc =>
            \/ <<mainPc, mainPc'>> \in StreamOrder
            \/ mainPc' = "terminated" /\ Threw]_vars
    /\ [][mainPc = "connect" /\ mainPc' = "send"
            => last.op = "connect" /\ last.ret = "ok" /\ state_ = "Connected"]_vars
    /\ [][mainPc = "connect" /\ pc[MainThread] = "idle" /\ Threw
            => mainPc' \in {"connect", "terminated"}]_vars
    /\ [](mainPc = "terminated"
            => \A t \in Threads : pc[t] \notin {"c_lock", "s_lock", "r_lock", "d_lock"})
    /\ [][mainPc = "terminated" => pc' = pc /\ mainPc' = mainPc /\ rtPc' = rtPc]_vars
    /\ [](pc[MainThread] \in {"c_lock", "c_io"} => mainPc = "connect" /\ rtPc = "none")
    /\ [](pc[MainThread] \in {"s_lock", "s_io"} => mainPc = "send" /\ rtPc = "none")
    /\ [](pc[ReceiveThread] # "idle"
            => mainPc \in {"wait", "join"} /\ rtPc = "receive" /\ pc[MainThread] = "idle")
    /\ [](rtPc \in {"test", "receive", "done"} => mainPc \in {"wait", "join"})
    /\ [](pc[MainThread] \in {"d_lock", "d_io"}
            => mainPc = "disconnect" /\ rtPc = "none" /\ pc[ReceiveThread] = "idle")

\* C27's case: disconnect() is running after a session in which the thread
\* received a frame.
C27_Witness ==
    /\ mainPc = "disconnect"
    /\ pc[MainThread] = "d_io"
    /\ rtPc = "none"
    /\ last.op = "receive"
    /\ last.ret = "ok"
    /\ stopped

\* C28: once the user has signalled stop, disconnect() is called in the end,
\* unless an exception ended the program.
C28_StopLeadsToDisconnect ==
    (mainPc = "join") ~> (mainPc \in {"disconnect", "terminated"})

\* C29: in every session the receive thread leaves its loop only after that
\* session's stop signal: before it, each test of the loop goes on to receive().
C29_EverySessionReceives ==
    /\ [](rtPc = "done" => stopped)
    /\ [](rtPc = "test" /\ ~stopped => LoopGoesOn(keepRunning))

\* C30: a broadcast sends the message once to each open connection that has
\* subscribed to the symbol since it opened, and to no other; a connection that
\* has closed is in no symbol's subscriber set.
C30_BroadcastReachesSubscribers ==
    /\ \A c \in Conns : sent.to[c] = IF c \in sent.due THEN 1 ELSE 0
    /\ \A c \in Conns : \A s \in DOMAIN subscriptions :
          /\ conn[c] = "closed" => c \notin subscriptions[s]
          /\ c \in subscriptions[s] <=> conn[c] = "open" /\ s \in asked[c]

\* C30's case: a broadcast for a symbol has gone to the one connection still
\* subscribed, after another subscriber of the symbol closed.
C30_Witness ==
    \E c, d \in Conns :
        /\ c # d
        /\ conn[c] = "open"
        /\ conn[d] = "closed"
        /\ sent.symbol \in DOMAIN subscriptions
        /\ sent.due = {c}
        /\ sent.to[c] = 1
        /\ sent.to[d] = 0
====
